---- MODULE Spec2Model ----
(***************************************************************************)
(* tirocks-sys: the safety layer between Rust and the native RocksDB       *)
(* library.  The module models                                             *)
(*   - the slice bridge r / s                        (lib.rs 20-45),       *)
(*   - the status handle rocksdb_Status, its constructors, accessors,      *)
(*     mutators and its Drop                         (lib.rs 47-145),      *)
(*   - the call protocol ffi_try!                    (lib.rs 147-167),     *)
(* over a native heap whose allocator / deallocator pair is                *)
(* crocksdb_to_cplus_array / crocksdb_free_cplus_array.                    *)
(***************************************************************************)
EXTENDS Integers, Sequences, FiniteSets, TLC

VARIABLES
    heap,      \* native heap: sequence of buffers, address = index
    status,    \* the rocksdb_Status held in the local slot
    slot,      \* "empty" | "live" | "dropped" | "moved": what the slot holds
    drops,     \* how many times Drop::drop ran on the value in the slot
    pc,        \* position of the enclosing operation
    call,      \* the native call wrapped by ffi_try!: shape and arguments
    ret,       \* what the native function returned
    res,       \* ffi_try!'s local `res`
    yielded,   \* the value the ffi_try! expression evaluated to
    produced,  \* the status record as the native call left it
    outcome,   \* the result of the enclosing operation
    after,     \* number of steps of the enclosing operation run after ffi_try!
    op,        \* the operation that ran last
    input,     \* arguments of the constructor that built the value in the slot
    hostmem,   \* host memory the byte slices point into
    mem0,      \* host memory as it was before any conversion
    view,      \* the host slice &[u8] given to r
    desc,      \* the rocksdb_Slice descriptor
    back,      \* the host slice returned by s
    spc        \* position of the slice scenario

vars == <<heap, status, slot, drops, pc, call, ret, res, yielded, produced,
          outcome, after, op, input, hostmem, mem0, view, desc, back, spc>>

statusVars == <<heap, status, slot, drops, pc, call, ret, res, yielded,
                produced, outcome, after, op, input>>

sliceVars == <<hostmem, mem0, view, desc, back, spc>>

(***************************************************************************)
(* Bounds                                                                  *)
(***************************************************************************)
MaxLen == 2        \* longest message handed to with_error / left by a native call
MaxAllocs == 2     \* native buffers allocated in one behaviour
MaxDrops == 2      \* times drop is exercised on the same handle
MemSize == 3       \* bytes of host memory

(***************************************************************************)
(* Values                                                                  *)
(***************************************************************************)
NULL == 0

kOk == "kOk"
kNone == "kNone"
kNoError == "kNoError"

Codes == {"kOk", "kNotFound", "kInvalidArgument"}
SubCodes == {"kNone", "kMutexTimeout"}
Severities == {"kNoError", "kFatalError"}

\* 0 is NUL, 65 is 'A', 255 occurs in no well-formed UTF-8 text.
Bytes == {0, 65, 255}

RECURSIVE SeqsUpTo(_, _)
SeqsUpTo(S, n) ==
    IF n = 0 THEN {<<>>}
    ELSE LET prev == SeqsUpTo(S, n - 1)
         IN  prev \cup {Append(q, b) : q \in {p \in prev : Len(p) = n - 1}, b \in S}

Messages == SeqsUpTo(Bytes, MaxLen)

Values == {"v1", "v2"}
NoValue == "none"

Calls == {[shape |-> "args", args |-> <<"opt", "path">>],
          [shape |-> "noargs", args |-> <<>>]}
NoCall == [shape |-> "none", args |-> <<>>]

None == <<>>
Some(x) == <<x>>

\* what a native call may leave in state_: nothing, or a C string
NativeStates == {None} \cup {<<m>> : m \in SeqsUpTo(Bytes \ {0}, MaxLen)}

(***************************************************************************)
(* Native allocator pair and C strings                                     *)
(***************************************************************************)
\* Copies the slice into a fresh NUL-terminated native buffer; the returned
\* pointer is the new last address.
crocksdb_to_cplus_array(h, bytes, by) ==
    Append(h, [bytes |-> bytes \o <<0>>, frees |-> 0, by |-> by])

\* delete[] of the buffer at address a.
crocksdb_free_cplus_array(h, a) ==
    [h EXCEPT ![a] = [bytes |-> <<>>, frees |-> @.frees + 1, by |-> @.by]]

\* CStr::from_ptr(p).to_bytes(): the bytes before the first NUL.
RECURSIVE CStrBytes(_)
CStrBytes(buf) ==
    IF buf = <<>> \/ Head(buf) = 0 THEN <<>>
    ELSE <<Head(buf)>> \o CStrBytes(Tail(buf))

\* str::from_utf8 validity for one- and two-byte encodings (Bytes holds no
\* lead byte of a three- or four-byte encoding).
RECURSIVE Utf8Valid(_)
Utf8Valid(b) ==
    IF b = <<>> THEN TRUE
    ELSE IF Head(b) < 128 THEN Utf8Valid(Tail(b))
    ELSE IF Head(b) >= 194 /\ Head(b) <= 223
         THEN /\ Len(b) >= 2
              /\ b[2] >= 128 /\ b[2] <= 191
              /\ Utf8Valid(Tail(Tail(b)))
    ELSE FALSE

(***************************************************************************)
(* rocksdb_Status                                                          *)
(***************************************************************************)
\* with_code that starts from a fatal severity
with_code_fatal(code) ==
    [code_ |-> code, subcode_ |-> kNone, sev_ |-> "kFatalError", state_ |-> NULL]

with_code(code) ==
    [code_ |-> code, subcode_ |-> kNone, sev_ |-> kNoError, state_ |-> NULL]

\* contents of a slot that holds no value
Vacant == with_code(kOk)

\* with_error without the assert_ne!
with_error_unchecked(code, state, h) ==
    [panic |-> FALSE,
     st    |-> [code_ |-> code, subcode_ |-> kNone, sev_ |-> kNoError,
                state_ |-> IF state # <<>> THEN Len(h) + 1 ELSE NULL],
     heap  |-> IF state # <<>>
               THEN crocksdb_to_cplus_array(h, state, "with_error") ELSE h]

\* with_error that allocates for the empty message as well
with_error_always_alloc(code, state, h) ==
    IF code = kOk
    THEN [panic |-> TRUE, st |-> Vacant, heap |-> h]
    ELSE [panic |-> FALSE,
          st    |-> [code_ |-> code, subcode_ |-> kNone, sev_ |-> kNoError,
                     state_ |-> Len(h) + 1],
          heap  |-> crocksdb_to_cplus_array(h, state, "with_error")]

with_error(code, state, h) ==
    IF code = kOk
    THEN [panic |-> TRUE, st |-> Vacant, heap |-> h]
    ELSE [panic |-> FALSE,
          st    |-> [code_ |-> code, subcode_ |-> kNone, sev_ |-> kNoError,
                     state_ |-> IF state # <<>> THEN Len(h) + 1 ELSE NULL],
          heap  |-> IF state # <<>>
                    THEN crocksdb_to_cplus_array(h, state, "with_error") ELSE h]

\* clear_state that frees but keeps the dangling pointer
clear_state_keep_ptr(st, h) ==
    IF st.state_ = NULL THEN [st |-> st, heap |-> h]
    ELSE [st |-> st, heap |-> crocksdb_free_cplus_array(h, st.state_)]

\* clear_state that nulls the pointer without freeing
clear_state_no_free(st, h) ==
    [st |-> [st EXCEPT !.state_ = NULL], heap |-> h]

clear_state(st, h) ==
    IF st.state_ = NULL THEN [st |-> st, heap |-> h]
    ELSE [st   |-> [st EXCEPT !.state_ = NULL],
          heap |-> crocksdb_free_cplus_array(h, st.state_)]

\* ok that also requires the message to be absent
ok_no_message(st) == st.code_ = kOk /\ st.state_ = NULL

ok(st) == st.code_ = kOk

state(st, h) ==
    IF st.state_ = NULL THEN None
    ELSE Some(CStrBytes(h[st.state_].bytes))

message(st, h) ==
    IF st.state_ = NULL THEN [tag |-> "Ok", val |-> None]
    ELSE LET b == CStrBytes(h[st.state_].bytes)
         IN  IF Utf8Valid(b) THEN [tag |-> "Ok", val |-> Some(b)]
             ELSE [tag |-> "Err", val |-> None]

code(st) == st.code_

severity(st) == st.sev_

\* set_severity that also resets the sub-code
set_severity_resets(st, v) == [st EXCEPT !.sev_ = v, !.subcode_ = kNone]

set_severity(st, v) == [st EXCEPT !.sev_ = v]

sub_code(st) == st.subcode_

set_sub_code(st, v) == [st EXCEPT !.subcode_ = v]

\* impl Drop for rocksdb_Status
drop(st, h) == clear_state(st, h)

\* status.into() that loses the severity
into_resets_severity(st) == [st EXCEPT !.sev_ = kNoError]

\* status.into() with the enclosing operation's error type rocksdb_Status
\* (test_status): the reflexive From, a move of the four fields.
into(st) ==
    [code_ |-> st.code_, subcode_ |-> st.subcode_, sev_ |-> st.sev_,
     state_ |-> st.state_]

NoOutcome == [tag |-> "None", val |-> NoValue, err |-> Vacant]
NoInput == [fn |-> "none", code |-> kOk, msg |-> <<>>]

(***************************************************************************)
(* Slice bridge                                                            *)
(***************************************************************************)
\* r that passes the length off by one
r_off_by_one(src) == [data_ |-> src.ptr, size_ |-> src.len + 1]

r(src) == [data_ |-> src.ptr, size_ |-> src.len]

s(src) == [ptr |-> src.data_, len |-> src.size_]

\* the bytes a host slice refers to
Deref(mem, v) == [i \in 1..v.len |-> mem[v.ptr + i - 1]]

NoView == [ptr |-> 0, len |-> 0]
NoDesc == [data_ |-> 0, size_ |-> 0]
Mem0 == [a \in 1..MemSize |-> 0]

\* host slices: any start inside the memory or one past its end, any length
\* that stays inside
Views == {[ptr |-> p, len |-> n] : p \in 1..(MemSize + 1), n \in 0..MemSize}
             \ {v \in [ptr : 1..(MemSize + 1), len : 0..MemSize] :
                    v.ptr + v.len > MemSize + 1}

(***************************************************************************)
(* Status handle and call protocol: state machine                          *)
(***************************************************************************)
Init ==
    /\ heap = <<>>
    /\ status = Vacant
    /\ slot = "empty"
    /\ drops = 0
    /\ pc = "idle"
    /\ call = NoCall
    /\ ret = NoValue
    /\ res = NoValue
    /\ yielded = NoValue
    /\ produced = Vacant
    /\ outcome = NoOutcome
    /\ after = 0
    /\ op = "init"
    /\ input = NoInput
    /\ hostmem = Mem0
    /\ mem0 = Mem0
    /\ view = NoView
    /\ desc = NoDesc
    /\ back = NoView
    /\ spc = "idle"

\* let st = rocksdb_Status::with_code(c);
WithCode(c) ==
    /\ pc = "idle"
    /\ slot # "live"
    /\ status' = with_code(c)
    /\ slot' = "live"
    /\ drops' = 0
    /\ input' = [fn |-> "with_code", code |-> c, msg |-> <<>>]
    /\ op' = "with_code"
    /\ UNCHANGED <<heap, pc, call, ret, res, yielded, produced, outcome, after>>
    /\ UNCHANGED sliceVars

\* let st = rocksdb_Status::with_error(c, m);
WithError(c, m) ==
    /\ pc = "idle"
    /\ slot # "live"
    /\ (m # <<>> => Len(heap) < MaxAllocs)
    /\ LET w == with_error(c, m, heap)
       IN  IF w.panic
           THEN /\ pc' = "panicked"
                /\ outcome' = [tag |-> "Panic", val |-> NoValue, err |-> Vacant]
                /\ UNCHANGED <<status, slot, drops, heap>>
           ELSE /\ status' = w.st
                /\ heap' = w.heap
                /\ slot' = "live"
                /\ drops' = 0
                /\ UNCHANGED <<pc, outcome>>
    /\ input' = [fn |-> "with_error", code |-> c, msg |-> m]
    /\ op' = "with_error"
    /\ UNCHANGED <<call, ret, res, yielded, produced, after>>
    /\ UNCHANGED sliceVars

\* st.set_severity(v), on the local handle or on the error value received
\* from a failed call
SetSeverity(v) ==
    /\ \/ /\ pc = "idle" /\ slot = "live"
          /\ status' = set_severity(status, v)
          /\ UNCHANGED <<outcome, pc>>
       \/ /\ pc \in {"returned", "refined"} /\ outcome.tag = "Err"
          /\ outcome' = [outcome EXCEPT !.err = set_severity(outcome.err, v)]
          /\ pc' = "refined"
          /\ UNCHANGED status
    /\ op' = "set_severity"
    /\ UNCHANGED <<heap, slot, drops, call, ret, res, yielded, produced, after, input>>
    /\ UNCHANGED sliceVars

\* st.set_sub_code(v)
SetSubCode(v) ==
    /\ \/ /\ pc = "idle" /\ slot = "live"
          /\ status' = set_sub_code(status, v)
          /\ UNCHANGED <<outcome, pc>>
       \/ /\ pc \in {"returned", "refined"} /\ outcome.tag = "Err"
          /\ outcome' = [outcome EXCEPT !.err = set_sub_code(outcome.err, v)]
          /\ pc' = "refined"
          /\ UNCHANGED status
    /\ op' = "set_sub_code"
    /\ UNCHANGED <<heap, slot, drops, call, ret, res, yielded, produced, after, input>>
    /\ UNCHANGED sliceVars

\* Drop::drop(&mut st), possibly again on the same value
Drop ==
    /\ pc = "idle"
    /\ slot \in {"live", "dropped"}
    /\ drops < MaxDrops
    /\ LET d == drop(status, heap)
       IN  /\ status' = d.st
           /\ heap' = d.heap
    /\ slot' = "dropped"
    /\ drops' = drops + 1
    /\ op' = "drop"
    /\ UNCHANGED <<pc, call, ret, res, yielded, produced, outcome, after, input>>
    /\ UNCHANGED sliceVars

\* ffi_try!: let mut status = rocksdb_Status::with_code(kOk);
FfiTryBegin(c) ==
    /\ pc = "idle"
    /\ slot # "live"
    /\ status' = with_code(kOk)
    /\ slot' = "live"
    /\ drops' = 0
    /\ call' = c
    /\ pc' = "init"
    /\ input' = [fn |-> "ffi_try", code |-> kOk, msg |-> <<>>]
    /\ op' = "ffi_begin"
    /\ UNCHANGED <<heap, ret, res, yielded, produced, outcome, after>>
    /\ UNCHANGED sliceVars

\* ffi_try!: let res = $func(args.., &mut status);  The native function
\* writes the status through the out-parameter and returns a value.
NativeCall(c, sc, sv, m, v) ==
    /\ pc = "init"
    /\ (m # None => Len(heap) < MaxAllocs)
    /\ LET st == [code_ |-> c, subcode_ |-> sc, sev_ |-> sv,
                  state_ |-> IF m # None THEN Len(heap) + 1 ELSE NULL]
       IN  /\ status' = st
           /\ produced' = st
    /\ heap' = IF m # None
               THEN crocksdb_to_cplus_array(heap, m[1], "native") ELSE heap
    /\ ret' = v
    /\ res' = v
    /\ pc' = "called"
    /\ op' = "native_call"
    /\ UNCHANGED <<slot, drops, call, yielded, outcome, after, input>>
    /\ UNCHANGED sliceVars

\* ffi_try! that yields nothing of the native result
FfiTryOkLosesValue ==
    /\ pc = "called"
    /\ ok(status)
    /\ yielded' = NoValue
    /\ LET d == drop(status, heap)
       IN  /\ status' = d.st
           /\ heap' = d.heap
    /\ slot' = "dropped"
    /\ drops' = 1
    /\ pc' = "yielded"
    /\ op' = "ffi_ok"
    /\ UNCHANGED <<call, ret, res, produced, outcome, after, input>>
    /\ UNCHANGED sliceVars

\* ffi_try!: if status.ok() { res }  -- the block ends, status is dropped
FfiTryOk ==
    /\ pc = "called"
    /\ ok(status)
    /\ yielded' = res
    /\ LET d == drop(status, heap)
       IN  /\ status' = d.st
           /\ heap' = d.heap
    /\ slot' = "dropped"
    /\ drops' = 1
    /\ pc' = "yielded"
    /\ op' = "ffi_ok"
    /\ UNCHANGED <<call, ret, res, produced, outcome, after, input>>
    /\ UNCHANGED sliceVars

\* ffi_try!: else { return Err(status.into()) }  -- status is moved
FfiTryErr ==
    /\ pc = "called"
    /\ ~ok(status)
    /\ outcome' = [tag |-> "Err", val |-> NoValue, err |-> into(status)]
    /\ status' = Vacant
    /\ slot' = "moved"
    /\ pc' = "returned"
    /\ op' = "ffi_err"
    /\ UNCHANGED <<heap, drops, call, ret, res, yielded, produced, after, input>>
    /\ UNCHANGED sliceVars

\* the step of the enclosing operation after ffi_try!: Ok(<value>)
Continue ==
    /\ pc = "yielded"
    /\ outcome' = [tag |-> "Ok", val |-> yielded, err |-> Vacant]
    /\ after' = after + 1
    /\ pc' = "returned"
    /\ op' = "continue"
    /\ UNCHANGED <<heap, status, slot, drops, call, ret, res, yielded, produced, input>>
    /\ UNCHANGED sliceVars

\* the caller lets the operation's result go out of scope
DropOutcome ==
    /\ pc \in {"returned", "refined"}
    /\ heap' = IF outcome.tag = "Err" THEN drop(outcome.err, heap).heap ELSE heap
    /\ outcome' = NoOutcome
    /\ status' = Vacant
    /\ slot' = "empty"
    /\ drops' = 0
    /\ call' = NoCall
    /\ ret' = NoValue
    /\ res' = NoValue
    /\ yielded' = NoValue
    /\ produced' = Vacant
    /\ after' = 0
    /\ input' = NoInput
    /\ pc' = "idle"
    /\ op' = IF outcome.tag = "Err" THEN "drop_err" ELSE "drop_ok"
    /\ UNCHANGED sliceVars

Next ==
    \/ \E c \in Codes : WithCode(c)
    \/ \E c \in Codes, m \in Messages : WithError(c, m)
    \/ \E v \in Severities : SetSeverity(v)
    \/ \E v \in SubCodes : SetSubCode(v)
    \/ Drop
    \/ \E c \in Calls : FfiTryBegin(c)
    \/ \E c \in Codes, sc \in SubCodes, sv \in Severities,
          m \in NativeStates, v \in Values : NativeCall(c, sc, sv, m, v)
    \/ FfiTryOk
    \/ FfiTryErr
    \/ Continue
    \/ DropOutcome

Spec == Init /\ [][Next]_vars

(***************************************************************************)
(* Slice bridge: state machine                                             *)
(***************************************************************************)
SliceInit ==
    /\ heap = <<>>
    /\ status = Vacant
    /\ slot = "empty"
    /\ drops = 0
    /\ pc = "idle"
    /\ call = NoCall
    /\ ret = NoValue
    /\ res = NoValue
    /\ yielded = NoValue
    /\ produced = Vacant
    /\ outcome = NoOutcome
    /\ after = 0
    /\ op = "init"
    /\ input = NoInput
    /\ hostmem \in [1..MemSize -> Bytes]
    /\ mem0 = hostmem
    /\ view = NoView
    /\ desc = NoDesc
    /\ back = NoView
    /\ spc = "idle"

\* host code borrows a byte slice: let src: &[u8] = ..
Borrow(v) ==
    /\ spc = "idle"
    /\ view' = v
    /\ spc' = "view"
    /\ UNCHANGED <<hostmem, mem0, desc, back>>
    /\ UNCHANGED statusVars

\* let d = r(src);
ToNative ==
    /\ spc = "view"
    /\ desc' = r(view)
    /\ spc' = "desc"
    /\ UNCHANGED <<hostmem, mem0, view, back>>
    /\ UNCHANGED statusVars

\* the native library hands out a descriptor of its own
\* (crocksdb_property_name_cf_stats_no_file_histogram in test_smoke)
NativeSlice(v) ==
    /\ spc = "idle"
    /\ desc' = [data_ |-> v.ptr, size_ |-> v.len]
    /\ spc' = "ndesc"
    /\ UNCHANGED <<hostmem, mem0, view, back>>
    /\ UNCHANGED statusVars

\* let b = s(d);
FromNative ==
    /\ spc \in {"desc", "ndesc"}
    /\ back' = s(desc)
    /\ spc' = IF spc = "desc" THEN "back" ELSE "nback"
    /\ UNCHANGED <<hostmem, mem0, view, desc>>
    /\ UNCHANGED statusVars

\* the views go out of scope
Release ==
    /\ spc \in {"back", "nback"}
    /\ view' = NoView
    /\ desc' = NoDesc
    /\ back' = NoView
    /\ spc' = "idle"
    /\ UNCHANGED <<hostmem, mem0>>
    /\ UNCHANGED statusVars

SliceNext ==
    \/ \E v \in Views : Borrow(v)
    \/ ToNative
    \/ \E v \in Views : NativeSlice(v)
    \/ FromNative
    \/ Release

SliceSpec == SliceInit /\ [][SliceNext]_vars

(***************************************************************************)
(* Properties                                                              *)
(***************************************************************************)
\* the handle the mutators act on: the local one, or the error value of a
\* failed call
Handle(p, st, out) == IF p = "idle" THEN st ELSE out.err

\* C1: a release (Drop::drop, i.e. clear_state) frees the state buffer if and
\* only if the state pointer is non-null and leaves the pointer null; no
\* buffer is ever passed to the deallocator more than once, and a release
\* after the first one frees nothing and changes nothing.
C1_ReleaseFreesOnce ==
    [][ /\ \A a \in 1..Len(heap') : heap'[a].frees <= 1
        /\ (op' = "drop" =>
              /\ status'.state_ = NULL
              /\ IF status.state_ # NULL
                 THEN /\ Len(heap') = Len(heap)
                      /\ heap'[status.state_].frees = heap[status.state_].frees + 1
                      /\ \A a \in 1..Len(heap) :
                             a # status.state_ => heap'[a] = heap[a]
                 ELSE heap' = heap
              /\ (drops >= 1 => heap' = heap /\ status' = status)) ]_vars

\* C1 witness: a handle built with a message has been dropped twice and its
\* buffer was freed once.
C1_Witness ==
    /\ op = "drop"
    /\ drops >= 2
    /\ input.fn = "with_error"
    /\ input.msg # <<>>
    /\ heap[Len(heap)].frees = 1

\* C2: when the native call leaves a non-ok code, the enclosing operation
\* returns at once with an error carrying the code, sub-code, severity and
\* message buffer the native call produced; the native return value is not
\* yielded and no step after the wrapped call runs.
C2_FailurePath ==
    (pc \in {"yielded", "returned", "refined"} /\ produced.code_ # kOk) =>
        /\ pc # "yielded"
        /\ outcome.tag = "Err"
        /\ yielded = NoValue
        /\ outcome.val = NoValue
        /\ after = 0
        /\ (pc = "returned" => outcome.err = produced)
        /\ outcome.err.code_ = produced.code_
        /\ outcome.err.state_ = produced.state_
        /\ (produced.state_ # NULL => heap[produced.state_].frees = 0)

\* C2 witness: a failed call returned an error with a message and a fatal
\* severity.
C2_Witness ==
    /\ pc = "returned"
    /\ op = "ffi_err"
    /\ outcome.tag = "Err"
    /\ outcome.err.state_ # NULL
    /\ outcome.err.sev_ = "kFatalError"
    /\ outcome.err.subcode_ = "kMutexTimeout"

\* C3: for both call shapes, when the native call leaves the ok code,
\* ffi_try! evaluates to exactly the value the native function returned, no
\* error is produced and the enclosing operation goes on after the call.
C3_SuccessPath ==
    (/\ pc \in {"yielded", "returned", "refined"}
     /\ produced.code_ = kOk
     /\ call.shape \in {"args", "noargs"}) =>
        /\ yielded = ret
        /\ outcome.tag # "Err"
        /\ pc # "refined"
        /\ (pc = "yielded" => outcome.tag = "None" /\ after = 0 /\ ENABLED Continue)
        /\ (pc = "returned" =>
               /\ outcome = [tag |-> "Ok", val |-> ret, err |-> Vacant]
               /\ after = 1)

\* C3 witness: a call without leading arguments succeeded and the operation
\* returned the native value.
C3_Witness ==
    /\ pc = "returned"
    /\ outcome.tag = "Ok"
    /\ outcome.val = "v2"
    /\ call.shape = "noargs"

\* C4: the handle made by ffi_try! is released on every exit path: dropped
\* at the end of ffi_try! on success, moved into the error value on failure
\* and freed with it.  A buffer the native call allocated is live exactly
\* while the handle or the error value owns it, so once the operation and
\* its result are gone every such buffer has been freed, and none twice.
C4_HandleReleased ==
    /\ \A a \in 1..Len(heap) : heap[a].frees <= 1
    /\ (pc = "yielded" => slot = "dropped" /\ status.state_ = NULL)
    /\ (pc \in {"returned", "refined"} /\ outcome.tag = "Err" => slot = "moved")
    /\ \A a \in 1..Len(heap) :
          heap[a].by = "native" =>
              (heap[a].frees = 0 <=>
                  \/ pc = "called" /\ status.state_ = a
                  \/ /\ pc \in {"returned", "refined"}
                     /\ outcome.tag = "Err"
                     /\ outcome.err.state_ = a)

\* C4 witness: the error value of a failed call was dropped and the buffer
\* the native call allocated has been freed once.
C4_Witness ==
    /\ op = "drop_err"
    /\ pc = "idle"
    /\ \E a \in 1..Len(heap) : heap[a].by = "native" /\ heap[a].frees = 1

\* C5: with_error called with the ok code panics whatever the message; it
\* returns no status, allocates nothing, and no status built by with_error
\* has the ok code.
C5_OkCodePanics ==
    [][ /\ (op' = "with_error" /\ input'.code = kOk) =>
              /\ pc' = "panicked"
              /\ outcome'.tag = "Panic"
              /\ heap' = heap
              /\ status' = status
              /\ slot' = slot
        /\ (input'.fn = "with_error" /\ slot' = "live") =>
              status'.code_ # kOk ]_vars

\* C5 witness: with_error was called with the ok code and a non-empty
\* message and the operation panicked.
C5_Witness ==
    /\ pc = "panicked"
    /\ op = "with_error"
    /\ input.code = kOk
    /\ input.msg # <<>>

\* C6: for every non-ok code c and non-empty message m, with_error(c, m)
\* reports ok() false, code() c, state() exactly the bytes m and, when m is
\* well-formed text, message() Ok(Some(m)).
C6_RoundTrip ==
    (/\ op = "with_error"
     /\ slot = "live"
     /\ input.code # kOk
     /\ input.msg # <<>>) =>
        /\ ~ok(status)
        /\ code(status) = input.code
        /\ state(status, heap) = Some(input.msg)
        /\ (Utf8Valid(input.msg) =>
               message(status, heap) = [tag |-> "Ok", val |-> Some(input.msg)])

\* C7: the status ffi_try! starts from, with_code(kOk), reports ok() true,
\* code ok, sub-code none, severity no-error, no state and no message, and
\* building it allocates nothing.
C7_DefaultStatus ==
    [][ (\/ op' = "ffi_begin"
         \/ op' = "with_code" /\ input'.code = kOk) =>
            /\ slot' = "live"
            /\ ok(status')
            /\ code(status') = kOk
            /\ sub_code(status') = kNone
            /\ severity(status') = kNoError
            /\ state(status', heap') = None
            /\ message(status', heap') = [tag |-> "Ok", val |-> None]
            /\ heap' = heap ]_vars

\* C7 witness: ffi_try! has made its status while an earlier buffer exists.
C7_Witness ==
    /\ pc = "init"
    /\ op = "ffi_begin"
    /\ Len(heap) >= 1

\* C8: with_error with a non-ok code allocates iff the message is non-empty:
\* for the empty message the heap is untouched and state() / message() report
\* nothing; for a non-empty one exactly one buffer is allocated, and that
\* buffer is the one the deallocator gets when the handle is released.
C8_AllocIffNonEmpty ==
    [][ /\ (op' = "with_error" /\ input'.code # kOk) =>
              IF input'.msg = <<>>
              THEN /\ heap' = heap
                   /\ status'.state_ = NULL
                   /\ state(status', heap') = None
                   /\ message(status', heap') = [tag |-> "Ok", val |-> None]
              ELSE /\ Len(heap') = Len(heap) + 1
                   /\ \A a \in 1..Len(heap) : heap'[a] = heap[a]
                   /\ status'.state_ = Len(heap')
                   /\ heap'[Len(heap')].frees = 0
                   /\ heap'[Len(heap')].by = "with_error"
        /\ (op' = "drop" /\ drops = 0 /\ input.fn = "with_error") =>
              IF input.msg = <<>>
              THEN heap' = heap
              ELSE /\ heap[status.state_].by = "with_error"
                   /\ heap[status.state_].frees = 0
                   /\ heap'[status.state_].frees = 1 ]_vars

\* C8 witness: a second handle with a message was built and released.
C8_Witness ==
    /\ op = "drop"
    /\ drops = 1
    /\ input.fn = "with_error"
    /\ input.msg # <<>>
    /\ Len(heap) = 2
    /\ heap[2].by = "with_error"
    /\ heap[2].frees = 1

\* C9: for every host slice v, the empty one included, r(v) has v's pointer
\* and length, s(r(v)) has the same pointer and length as v, and the
\* conversions neither copy nor change the bytes.
C9_SliceRoundTrip ==
    /\ (spc \in {"desc", "back"} =>
           desc.data_ = view.ptr /\ desc.size_ = view.len)
    /\ (spc = "back" =>
           /\ back.ptr = view.ptr
           /\ back.len = view.len
           /\ Deref(hostmem, back) = Deref(mem0, view))
    /\ (spc = "nback" => back.ptr = desc.data_ /\ back.len = desc.size_)
    /\ hostmem = mem0
    /\ heap = <<>>

\* C9 witness: a non-empty slice that starts inside the memory went through
\* r and s.
C9_Witness ==
    /\ spc = "back"
    /\ view.ptr = 2
    /\ view.len = 2
    /\ hostmem[2] # hostmem[3]

\* C10: ok() is true exactly when the code is the ok variant, whatever the
\* message, severity and sub-code; set_severity and set_sub_code change
\* their own field only.
C10_OkIffCode ==
    [][ /\ (slot' = "live" => (ok(status') <=> status'.code_ = kOk))
        /\ (outcome'.tag = "Err" =>
               (ok(outcome'.err) <=> outcome'.err.code_ = kOk))
        /\ (op' = "set_severity" =>
               /\ pc' = IF pc = "idle" THEN "idle" ELSE "refined"
               /\ [Handle(pc, status', outcome') EXCEPT
                      !.sev_ = Handle(pc, status, outcome).sev_]
                  = Handle(pc, status, outcome)
               /\ heap' = heap)
        /\ (op' = "set_sub_code" =>
               /\ pc' = IF pc = "idle" THEN "idle" ELSE "refined"
               /\ [Handle(pc, status', outcome') EXCEPT
                      !.subcode_ = Handle(pc, status, outcome).subcode_]
                  = Handle(pc, status, outcome)
               /\ heap' = heap) ]_vars

\* C10 witness: an error received from a native call, with a message, was
\* refined by both mutators.
C10_Witness ==
    /\ op = "set_sub_code"
    /\ pc = "refined"
    /\ produced.sev_ = kNoError
    /\ produced.subcode_ = kNone
    /\ outcome.err.sev_ = "kFatalError"
    /\ outcome.err.subcode_ = "kMutexTimeout"
    /\ outcome.err.state_ # NULL

====
